---- MODULE Spec2Model ----
(***************************************************************************)
(* Stochastic user equilibrium by the method of successive averages        *)
(* (tap-sue): the network, Dijkstra's algorithm with the centroid rule,    *)
(* the per-origin bushes with their arc lists and topological order,       *)
(* Dial's loading and the MSA driver, as a state machine.                  *)
(*                                                                         *)
(* Numbers.  A C double is modelled by an exact extended rational          *)
(* <<n, d>> in lowest terms: d > 0 is the rational n/d, <<1,0>> is         *)
(* +infinity, <<-1,0>> is -infinity and <<0,0>> is NaN, which also stands  *)
(* for the content of memory that was never written.  Rounding and         *)
(* underflow of floating point are outside the model.  Costs are counted   *)
(* in units of MIN_LINK_COST (1e-6), so that the clamp of bush.c:38 is     *)
(* max(1, c).  exp(theta * x) is modelled by ExpTheta: 2^(Theta*x) at the  *)
(* integers, interpolated linearly between them; it is positive, strictly  *)
(* increasing and 1 exactly at 0, like exp.                                *)
(*                                                                         *)
(* Memory.  Arc-list elements live in the heap elts and are named by       *)
(* their index, NULL being 0.  An access that C leaves undefined (a store  *)
(* through a null pointer, an index outside an allocated row) is a         *)
(* nondeterministic choice between the outcomes described at the access;   *)
(* the outcome "fault" ends the run in pc = "fault".                       *)
(***************************************************************************)
EXTENDS Integers, Sequences, FiniteSets, TLC

\* ------------------------------------------------------------ bounds
MaxNodes == 3
MaxZones == 2
MaxFreeFlow == 2
MaxDemand == 1
MaxPasses == 2
MaxFlow == 2
MaxLines == 4
Theta == 1

\* ------------------------------------------------- program constants
MIN_LINK_COST == 1
MAX_TIME == 3600
MAX_ITERATIONS == 100
NO_PATH_EXISTS == -1
NULL == 0

\* --------------------------------------------------------- doubles
NaN == <<0, 0>>
INFINITY == <<1, 0>>
NegInfinity == <<-1, 0>>
Zero == <<0, 1>>
One == <<1, 1>>
LINK_FLOW_TOLERANCE == <<1, 1000>>

Abs(n) == IF n < 0 THEN -n ELSE n
Sgn(n) == IF n < 0 THEN -1 ELSE IF n > 0 THEN 1 ELSE 0

RECURSIVE Gcd(_, _)
Gcd(a, b) == IF b = 0 THEN a ELSE Gcd(b, a % b)

Norm(n, d) ==
    LET g == Gcd(Abs(n), d) IN <<n \div g, d \div g>>

R(n) == <<n, 1>>
IsNaN(x) == x = NaN
IsInf(x) == x[2] = 0 /\ x[1] # 0
IsFinite(x) == x[2] > 0

RAdd(a, b) ==
    IF IsNaN(a) \/ IsNaN(b) THEN NaN
    ELSE IF IsInf(a) /\ IsInf(b) THEN (IF a = b THEN a ELSE NaN)
    ELSE IF IsInf(a) THEN a
    ELSE IF IsInf(b) THEN b
    ELSE LET g == Gcd(a[2], b[2])
         IN  Norm(a[1] * (b[2] \div g) + b[1] * (a[2] \div g),
                  (a[2] \div g) * b[2])

RNeg(a) == <<-a[1], a[2]>>
RSub(a, b) == RAdd(a, RNeg(b))

RMul(a, b) ==
    IF IsNaN(a) \/ IsNaN(b) THEN NaN
    ELSE IF IsInf(a) \/ IsInf(b) THEN <<Sgn(a[1]) * Sgn(b[1]), 0>>
    ELSE LET g == Gcd(Abs(a[1]), b[2])
             h == Gcd(Abs(b[1]), a[2])
         IN  <<(a[1] \div g) * (b[1] \div h), (a[2] \div h) * (b[2] \div g)>>

RInv(a) ==
    IF IsNaN(a) THEN NaN
    ELSE IF IsInf(a) THEN Zero
    ELSE IF a[1] = 0 THEN INFINITY
    ELSE IF a[1] < 0 THEN <<-a[2], -a[1]>>
    ELSE <<a[2], a[1]>>

RDiv(a, b) == RMul(a, RInv(b))

RLess(a, b) ==
    IF IsNaN(a) \/ IsNaN(b) THEN FALSE
    ELSE IF IsInf(a) /\ IsInf(b) THEN a[1] < b[1]
    ELSE IF IsInf(a) \/ IsInf(b) THEN a[1] * b[2] < b[1] * a[2]
    ELSE LET g == Gcd(a[2], b[2])
         IN  a[1] * (b[2] \div g) < b[1] * (a[2] \div g)

RLeq(a, b) == ~IsNaN(a) /\ ~IsNaN(b) /\ ~RLess(b, a)
RAbs(a) == <<Abs(a[1]), a[2]>>
min(a, b) == IF RLess(a, b) THEN a ELSE b
max(a, b) == IF RLess(b, a) THEN a ELSE b

RECURSIVE Pow2(_)
Pow2(k) == IF k = 0 THEN 1 ELSE 2 * Pow2(k - 1)

ExpTheta(x) ==
    IF IsNaN(x) THEN NaN
    ELSE IF x = INFINITY THEN INFINITY
    ELSE IF x = NegInfinity THEN Zero
    ELSE LET y == RMul(R(Theta), x)
             k == y[1] \div y[2]
             f == RSub(y, R(k))
             m == RAdd(One, f)
         IN  IF k >= 0 THEN RMul(R(Pow2(k)), m)
             ELSE RMul(<<1, Pow2(-k)>>, m)

RECURSIVE RPow(_, _)
RPow(x, n) == IF n = 0 THEN One ELSE RMul(x, RPow(x, n - 1))

\* ----------------------------------------------------------- state
VARIABLES
    pc, fault, ret,
    numNodes, numArcs, numZones, firstThroughNode, arcs, demand, nodes,
    elts, lambda,
    valueFn, heap, curnode,
    SPcost, flow, nodeFlow, weight, nodeWeight, likelihood,
    bushOrder, bushForwardStar, bushReverseStar, numBushLinks, numBushPaths,
    r, ij, pathCount,
    indegree, LIST, next,
    converged, iteration, elapsedTime, diff, target,
    tripFile

netVars == <<numNodes, numArcs, numZones, firstThroughNode, demand, lambda,
             tripFile>>
heapVars == <<valueFn, heap, curnode>>
scratchVars == <<SPcost, flow, nodeFlow, weight, nodeWeight, likelihood>>
starVars == <<bushForwardStar, bushReverseStar, numBushLinks>>
topoVars == <<indegree, LIST, next>>
msaVars == <<converged, iteration, elapsedTime, diff>>
vars == <<pc, fault, ret, netVars, arcs, nodes, elts, heapVars, scratchVars,
          starVars, bushOrder, numBushPaths, r, ij, pathCount, topoVars,
          msaVars, target>>

Nodes == 0 .. numNodes - 1
Arcs == 0 .. numArcs - 1
Zones == 0 .. numZones - 1

\* The defaults of the link file's metadata.
distanceFactor == 0
tollFactor == 0

\* ------------------------------------------------------- arc lists
EmptyList == [head |-> NULL, tail |-> NULL, size |-> 0]

initializeArcList == EmptyList

\* insertArcList: the new element is elts[Len(E) + 1].  The store
\* newNode->next->prev goes through a null pointer when the list's tail is
\* not `after` and nothing follows `after`: the process faults.
insertArcList(E, list, value, after) ==
    LET newNode == Len(E) + 1
        nx == IF after # NULL THEN E[after].next ELSE list.head
    IN  IF list.tail # after /\ nx = NULL
        THEN [fault |-> TRUE, elts |-> E, list |-> list]
        ELSE LET E1 == Append(E, [arc |-> value, prev |-> after, next |-> nx])
                 E2 == IF list.tail # after
                       THEN [E1 EXCEPT ![nx].prev = newNode]
                       ELSE E1
                 E3 == IF after # NULL
                       THEN [E2 EXCEPT ![after].next = newNode]
                       ELSE E2
             IN  [fault |-> FALSE,
                  elts |-> E3,
                  list |-> [head |-> IF after # NULL THEN list.head ELSE newNode,
                            tail |-> IF list.tail # after THEN list.tail ELSE newNode,
                            size |-> list.size + 1]]

\* The arcs met from element e on, following next (for (curArc = head;
\* curArc != NULL; curArc = curArc->next)); fuel stops a walk of a list that
\* has no end.
RECURSIVE Walk(_, _, _)
Walk(E, e, fuel) ==
    IF e = NULL \/ fuel = 0 THEN << >>
    ELSE <<E[e].arc>> \o Walk(E, E[e].next, fuel - 1)

ListArcs(E, list) == Walk(E, list.head, Len(E) + 1)

ptr2arc(arcptr) == arcptr

\* ---------------------------------------------------- cost functions
generalBPRcost(arc) ==
    IF RLeq(arc.flow, Zero)
    THEN RAdd(arc.freeFlowTime, arc.fixedCost)
    ELSE RAdd(arc.fixedCost,
              RMul(arc.freeFlowTime,
                   RAdd(One, RMul(arc.alpha,
                                  RPow(RDiv(arc.flow, arc.capacity), arc.beta)))))

linearBPRcost(arc) ==
    RAdd(arc.fixedCost,
         RMul(arc.freeFlowTime,
              RAdd(One, RDiv(RMul(arc.alpha, arc.flow), arc.capacity))))

quarticBPRcost(arc) ==
    LET y0 == RDiv(arc.flow, arc.capacity)
        y1 == RMul(y0, y0)
        y2 == RMul(y1, y1)
    IN  RAdd(arc.fixedCost,
             RMul(arc.freeFlowTime, RAdd(One, RMul(arc.alpha, y2))))

\* The selector readTntpNetwork stores in calculateCost.
CostSelector(beta) ==
    IF beta = 1 THEN "linearBPRcost"
    ELSE IF beta = 4 THEN "quarticBPRcost"
    ELSE "generalBPRcost"

calculateCost(arc) ==
    IF arc.calculateCost = "linearBPRcost" THEN linearBPRcost(arc)
    ELSE IF arc.calculateCost = "quarticBPRcost" THEN quarticBPRcost(arc)
    ELSE generalBPRcost(arc)

\* ------------------------------------------------------------ input
\* The networks readTntpNetwork accepts, before finalizeNetwork: tails and
\* heads in range, freeFlowTime >= 0, capacity > 0, demand >= 0.
FreeFlowTimes == {0, MaxFreeFlow}
StepSizes == {<<1, 2>>}

InputArc(t, h, f) ==
    [tail |-> t, head |-> h, flow |-> Zero, cost |-> R(f),
     freeFlowTime |-> R(f), capacity |-> One, length |-> Zero, toll |-> Zero,
     alpha |-> One, beta |-> 1, fixedCost |-> NaN,
     calculateCost |-> CostSelector(1)]

\* Tails and heads: every pair of two nodes; of a larger network every
\* pair of distinct nodes, no pair twice.
InputEnds(N) ==
    { e \in (0 .. N - 1) \X (0 .. N - 1) : N = 2 \/ e[1] # e[2] }

InputArcs(N, A) ==
    { [a \in 0 .. A - 1 |-> InputArc(e[a][1], e[a][2], f[a])] :
        e \in { x \in [0 .. A - 1 -> InputEnds(N)] :
                  N = 2 \/ \A a, b \in 0 .. A - 1 : a # b => x[a] # x[b] },
        f \in [0 .. A - 1 -> FreeFlowTimes] }

\* Demand: nothing on the diagonal, MaxDemand from zone 0 to every other
\* zone; elsewhere 0 or MaxDemand (MaxDemand in a network of more than two
\* nodes).
InputDemand(N, Z) ==
    { d \in [0 .. Z - 1 -> [0 .. Z - 1 -> {0, MaxDemand}]] :
        /\ \A z \in 0 .. Z - 1 : d[z][z] = 0
        /\ \A z \in 1 .. Z - 1 : d[0][z] = MaxDemand
        /\ N > 2 => \A y, z \in 0 .. Z - 1 : y # z => d[y][z] = MaxDemand }

\* The sizes: as many arcs as nodes at most; MaxZones zones in a network of
\* more than two nodes; every zone a centroid or none.
InputSizes ==
    { s \in [N : 2 .. MaxNodes, A : 1 .. MaxNodes, Z : 1 .. MaxZones,
             F : 0 .. MaxZones] :
        /\ s.A <= s.N
        /\ s.Z <= s.N
        /\ s.N > 2 => s.Z = MaxZones
        /\ s.F \in {0, s.Z}
        /\ s.F < s.N }

Init ==
    /\ \E s \in InputSizes :
          /\ numNodes = s.N
          /\ numArcs = s.A
          /\ numZones = s.Z
          /\ firstThroughNode = s.F
    /\ arcs \in InputArcs(numNodes, numArcs)
    /\ demand \in { [z \in 0 .. numZones - 1 |->
                       [y \in 0 .. numZones - 1 |-> R(d[z][y])]] :
                    d \in InputDemand(numNodes, numZones) }
    /\ lambda \in StepSizes
    /\ nodes = [i \in Nodes |-> [forwardStar |-> NaN, reverseStar |-> NaN]]
    /\ elts = << >>
    /\ pc = "finalizeNetwork"
    /\ fault = "none"
    /\ ret = "none"
    /\ valueFn = << >> /\ heap = {} /\ curnode = NO_PATH_EXISTS
    /\ SPcost = << >> /\ flow = << >> /\ nodeFlow = << >>
    /\ weight = << >> /\ nodeWeight = << >> /\ likelihood = << >>
    /\ bushOrder = << >> /\ bushForwardStar = << >> /\ bushReverseStar = << >>
    /\ numBushLinks = << >> /\ numBushPaths = << >>
    /\ r = 0 /\ ij = 0 /\ pathCount = << >>
    /\ indegree = << >> /\ LIST = << >> /\ next = 0
    /\ converged = FALSE /\ iteration = 0 /\ elapsedTime = 0
    /\ diff = INFINITY /\ target = << >>
    /\ tripFile = << >>

\* -------------------------------------------------- finalizeNetwork
\* One pass of the loop of networks.c:78-92 over arc a, on the pair
\* <<nodes, elts>>.
RECURSIVE FinalizeStars(_, _, _)
FinalizeStars(nd, E, a) ==
    IF a = numArcs THEN [nodes |-> nd, elts |-> E]
    ELSE LET t == arcs[a].tail
             h == arcs[a].head
             f == insertArcList(E, nd[t].forwardStar, a, nd[t].forwardStar.tail)
             nd1 == [nd EXCEPT ![t].forwardStar = f.list]
             g == insertArcList(f.elts, nd1[h].reverseStar, a,
                                nd1[h].reverseStar.tail)
             nd2 == [nd1 EXCEPT ![h].reverseStar = g.list]
         IN  FinalizeStars(nd2, g.elts, a + 1)

finalizeNetwork ==
    /\ pc = "finalizeNetwork"
    /\ LET st == FinalizeStars(
                    [i \in Nodes |-> [forwardStar |-> initializeArcList,
                                      reverseStar |-> initializeArcList]],
                    elts, 0)
       IN  /\ nodes' = st.nodes
           /\ elts' = st.elts
    /\ arcs' = [a \in Arcs |->
                 LET fc == RAdd(RMul(arcs[a].length, R(distanceFactor)),
                                RMul(arcs[a].toll, R(tollFactor)))
                 IN  [arcs[a] EXCEPT !.fixedCost = fc,
                                     !.cost = RAdd(arcs[a].freeFlowTime, fc),
                                     !.flow = Zero]]
    /\ pc' = "SUE_MSA"
    /\ UNCHANGED <<fault, ret, netVars, heapVars, scratchVars, starVars,
                   bushOrder, numBushPaths, r, ij, pathCount, topoVars,
                   msaVars, target>>

\* ------------------------------------------------- initializeBushes
\* bush.c:14-41: the allocations (rows of bushOrder hold numArcs slots;
\* newVector and newMatrix leave their content unwritten) and the clamp of
\* the free-flow costs.
bushOrderWidth == numArcs

initializeBushes_begin ==
    /\ pc = "SUE_MSA"
    /\ SPcost' = [i \in Nodes |-> NaN]
    /\ flow' = [a \in Arcs |-> NaN]
    /\ nodeFlow' = [i \in Nodes |-> NaN]
    /\ weight' = [a \in Arcs |-> NaN]
    /\ nodeWeight' = [i \in Nodes |-> NaN]
    /\ likelihood' = [a \in Arcs |-> NaN]
    /\ bushOrder' = [o \in Zones |-> [k \in Nodes |-> NaN]]
    /\ bushForwardStar' = [o \in Zones |-> [i \in Nodes |-> NaN]]
    /\ bushReverseStar' = [o \in Zones |-> [i \in Nodes |-> NaN]]
    /\ numBushLinks' = [o \in Zones |-> NaN]
    /\ numBushPaths' = [o \in Zones |-> NaN]
    /\ pathCount' = [i \in Nodes |-> NaN]
    /\ target' = [a \in Arcs |-> NaN]
    /\ arcs' = [a \in Arcs |->
                 [arcs[a] EXCEPT !.cost =
                     max(R(MIN_LINK_COST),
                         RAdd(arcs[a].freeFlowTime, arcs[a].fixedCost))]]
    /\ r' = 0
    /\ pc' = "origin"
    /\ UNCHANGED <<fault, ret, netVars, nodes, elts, heapVars, ij, topoVars,
                   msaVars>>

\* The run stops in pc = "fault": the access that C leaves undefined took
\* down the process.
Fault(what) ==
    /\ pc' = "fault"
    /\ fault' = what
    /\ UNCHANGED <<ret, netVars, arcs, nodes, elts, heapVars, scratchVars,
                   starVars, bushOrder, numBushPaths, r, ij, pathCount,
                   topoVars, msaVars, target>>

\* ------------------------------------------------------------- heap
\* The binary heap of datastructures.c, by its contract: the members, keyed
\* by valueFn.
insertHeap(h, j, key) ==
    [valueFn |-> [h.valueFn EXCEPT ![j] = key], members |-> h.members \cup {j}]

decreaseKey(h, j, key) ==
    [valueFn |-> [h.valueFn EXCEPT ![j] = key], members |-> h.members]

\* findMinHeap: a member of least key (which one among equals is the heap's
\* affair).
findMinHeap(h) ==
    { c \in h.members : \A d \in h.members : ~RLess(h.valueFn[d], h.valueFn[c]) }

deleteMinHeap(h, c) ==
    [valueFn |-> h.valueFn, members |-> h.members \ {c}]

\* ----------------------------------------------------- shortestPath
IsCentroid_never(j) == FALSE

\* networks.c:50: a head below firstThroughNode is a centroid, which gets
\* its label and is kept off the heap.
IsCentroid(j) == j < firstThroughNode

\* networks.c:45-58, for the arcs as[k..] of curnode's forward star.
RECURSIVE Relax(_, _, _, _)
Relax(h, c, as, k) ==
    IF k > Len(as) THEN h
    ELSE LET j == arcs[as[k]].head
             tempLabel == RAdd(h.valueFn[c], arcs[as[k]].cost)
         IN  IF RLess(tempLabel, h.valueFn[j])
             THEN IF IsCentroid(j)
                  THEN Relax([h EXCEPT !.valueFn[j] = tempLabel], c, as, k + 1)
                  ELSE IF h.valueFn[j] = INFINITY
                       THEN Relax(insertHeap(h, j, tempLabel), c, as, k + 1)
                       ELSE Relax(decreaseKey(h, j, tempLabel), c, as, k + 1)
             ELSE Relax(h, c, as, k + 1)

\* bush.c:42-50 and networks.c:30-39: the origin's lists are emptied and
\* Dijkstra's heap holds the origin alone.
origin_begin ==
    /\ pc = "origin"
    /\ r < numZones
    /\ numBushLinks' = [numBushLinks EXCEPT ![r] = 0]
    /\ bushForwardStar' =
          [bushForwardStar EXCEPT ![r] = [i \in Nodes |-> initializeArcList]]
    /\ bushReverseStar' =
          [bushReverseStar EXCEPT ![r] = [i \in Nodes |-> initializeArcList]]
    /\ LET h == insertHeap([valueFn |-> [j \in Nodes |-> INFINITY],
                            members |-> {}], r, Zero)
       IN  /\ valueFn' = h.valueFn
           /\ heap' = h.members
    /\ curnode' = NO_PATH_EXISTS
    /\ pc' = "shortestPath"
    /\ UNCHANGED <<fault, ret, netVars, arcs, nodes, elts, scratchVars,
                   bushOrder, numBushPaths, r, ij, pathCount, topoVars,
                   msaVars, target>>

\* networks.c:40-60: one pass of the while loop.
shortestPath_step ==
    /\ pc = "shortestPath"
    /\ heap # {}
    /\ \E c \in findMinHeap([valueFn |-> valueFn, members |-> heap]) :
          LET h0 == deleteMinHeap([valueFn |-> valueFn, members |-> heap], c)
              h1 == Relax(h0, c, ListArcs(elts, nodes[c].forwardStar), 1)
          IN  /\ curnode' = c
              /\ valueFn' = h1.valueFn
              /\ heap' = h1.members
    /\ UNCHANGED <<pc, fault, ret, netVars, arcs, nodes, elts, scratchVars,
                   starVars, bushOrder, numBushPaths, r, ij, pathCount,
                   topoVars, msaVars, target>>

\* networks.c:62-64: the labels are copied out.
shortestPath_return ==
    /\ pc = "shortestPath"
    /\ heap = {}
    /\ SPcost' = valueFn
    /\ ij' = 0
    /\ pc' = "reasonable"
    /\ UNCHANGED <<fault, ret, netVars, arcs, nodes, elts, heapVars, flow,
                   nodeFlow, weight, nodeWeight, likelihood, starVars,
                   bushOrder, numBushPaths, r, pathCount, topoVars, msaVars,
                   target>>

Reasonable_orEqual(sp, i, j) == RLeq(sp[i], sp[j])

\* bush.c:54: the test of a reasonable link.
Reasonable(sp, i, j) == RLess(sp[i], sp[j])

\* bush.c:51-64: one pass of the loop over the arcs.  The reverse star's
\* insertion point is the tail of the FORWARD star of j (bush.c:62).
reasonable_arc ==
    /\ pc = "reasonable"
    /\ LET i == arcs[ij].tail
           j == arcs[ij].head
       IN  IF Reasonable(SPcost, i, j)
           THEN LET f == insertArcList(elts, bushForwardStar[r][i], ij,
                                       bushForwardStar[r][i].tail)
                    fs == [bushForwardStar EXCEPT ![r][i] = f.list]
                    g == insertArcList(f.elts, bushReverseStar[r][j], ij,
                                       fs[r][j].tail)
                IN  IF f.fault \/ g.fault
                    THEN Fault("null pointer")
                    ELSE /\ numBushLinks' =
                               [numBushLinks EXCEPT ![r] = numBushLinks[r] + 1]
                         /\ bushForwardStar' = fs
                         /\ bushReverseStar' =
                               [bushReverseStar EXCEPT ![r][j] = g.list]
                         /\ elts' = g.elts
                         /\ ij' = ij + 1
                         /\ pc' = IF ij + 1 < numArcs THEN "reasonable"
                                  ELSE "bushTopologicalOrder"
                         /\ UNCHANGED <<fault, ret, netVars, arcs, nodes,
                                        heapVars, scratchVars, bushOrder,
                                        numBushPaths, r, pathCount, topoVars,
                                        msaVars, target>>
           ELSE /\ ij' = ij + 1
                /\ pc' = IF ij + 1 < numArcs THEN "reasonable"
                         ELSE "bushTopologicalOrder"
                /\ UNCHANGED <<fault, ret, netVars, arcs, nodes, elts,
                               heapVars, scratchVars, starVars, bushOrder,
                               numBushPaths, r, pathCount, topoVars, msaVars,
                               target>>

\* ------------------------------------------------------------ queue
\* The FIFO queue of datastructures.c, by its contract.
createQueue == << >>
enQueue(q, x) == Append(q, x)
deQueue(q) == [elt |-> Head(q), queue |-> Tail(q)]

\* --------------------------------------------- bushTopologicalOrder
\* A row of bushOrder holds bushOrderWidth slots (bush.c:23).  An access at
\* a slot beyond them is outside the row: either it lands in the memory
\* that follows the row and the run goes on as if the slot were there
\* ("stored"), or the damage ends the run ("fault").
RowAccess(k) == IF k < bushOrderWidth THEN {"stored"} ELSE {"stored", "fault"}

Seeded_originToo(deg, origin, i) == deg[i] = 0

\* bush.c:139: the nodes that start in the queue behind the origin.
Seeded(deg, origin, i) == deg[i] = 0 /\ i # origin

\* bush.c:138-140.
RECURSIVE SeedQueue(_, _, _, _)
SeedQueue(q, deg, origin, i) ==
    IF i = numNodes THEN q
    ELSE IF Seeded(deg, origin, i)
         THEN SeedQueue(enQueue(q, i), deg, origin, i + 1)
         ELSE SeedQueue(q, deg, origin, i + 1)

\* bush.c:129-140.
bushTopologicalOrder_begin ==
    /\ pc = "bushTopologicalOrder"
    /\ \E o \in RowAccess(numNodes - 1) :
          IF o = "fault" THEN Fault("out of bounds")
          ELSE LET deg == [i \in Nodes |-> bushReverseStar[r][i].size]
               IN  /\ indegree' = deg
                   /\ bushOrder' =
                         [bushOrder EXCEPT ![r] = [i \in Nodes |-> NO_PATH_EXISTS]]
                   /\ LIST' = SeedQueue(enQueue(createQueue, r), deg, r, 0)
                   /\ next' = 0
                   /\ pc' = "topologicalLoop"
                   /\ UNCHANGED <<fault, ret, netVars, arcs, nodes, elts,
                                  heapVars, scratchVars, starVars,
                                  numBushPaths, r, ij, pathCount, msaVars,
                                  target>>

Released_early(deg, j) == deg[j] <= 1
Released_late(deg, j) == deg[j] < 0

\* bush.c:151: a node enters the queue when its last bush predecessor has
\* been taken.
Released(deg, j) == deg[j] = 0

\* bush.c:145-152, for the arcs as[k..] of the forward star of the node
\* taken from the queue.
RECURSIVE Release(_, _, _)
Release(st, as, k) ==
    IF k > Len(as) THEN st
    ELSE LET j == arcs[as[k]].head
             deg == [st.indegree EXCEPT ![j] = st.indegree[j] - 1]
         IN  Release([indegree |-> deg,
                      LIST |-> IF Released(deg, j) THEN enQueue(st.LIST, j)
                               ELSE st.LIST],
                     as, k + 1)

\* bush.c:141-153: one pass of the while loop.
bushTopologicalOrder_step ==
    /\ pc = "topologicalLoop"
    /\ Len(LIST) > 0
    /\ \E o \in RowAccess(next) :
          IF o = "fault" THEN Fault("out of bounds")
          ELSE LET d == deQueue(LIST)
                   i == d.elt
                   st == Release([indegree |-> indegree, LIST |-> d.queue],
                                 ListArcs(elts, bushForwardStar[r][i]), 1)
               IN  /\ bushOrder' = [bushOrder EXCEPT ![r][next] = i]
                   /\ next' = next + 1
                   /\ indegree' = st.indegree
                   /\ LIST' = st.LIST
                   /\ UNCHANGED <<pc, fault, ret, netVars, arcs, nodes, elts,
                                  heapVars, scratchVars, starVars,
                                  numBushPaths, r, ij, pathCount, msaVars,
                                  target>>

\* bush.c:154-159.
bushTopologicalOrder_end ==
    /\ pc = "topologicalLoop"
    /\ Len(LIST) = 0
    /\ pc' = IF next < numNodes THEN "fatalError" ELSE "pathCount"
    /\ UNCHANGED <<fault, ret, netVars, arcs, nodes, elts, heapVars,
                   scratchVars, starVars, bushOrder, numBushPaths, r, ij,
                   pathCount, topoVars, msaVars, target>>

\* ------------------------------------------------------- path count
RECURSIVE SumPathCount(_, _, _)
SumPathCount(pcnt, as, k) ==
    IF k > Len(as) THEN 0
    ELSE pcnt[arcs[as[k]].tail] + SumPathCount(pcnt, as, k + 1)

Counted_anyZone(o, j) == j < numZones

\* bush.c:80: the paths to j count when j is a zone with demand from o.
Counted(o, j) == j < numZones /\ RLess(Zero, demand[o][j])

\* bush.c:70-83, from position curpos on.
RECURSIVE CountPaths(_, _)
CountPaths(st, curpos) ==
    IF curpos >= numNodes THEN st
    ELSE LET j == bushOrder[r][curpos]
             c == SumPathCount(st.pathCount,
                               ListArcs(elts, bushReverseStar[r][j]), 1)
         IN  CountPaths(
                [pathCount |-> [st.pathCount EXCEPT ![j] = c],
                 numBushPaths |->
                    IF Counted(r, j)
                    THEN st.numBushPaths + c
                    ELSE st.numBushPaths],
                curpos + 1)

\* bush.c:67-84, and the step of the loop over the origins.
pathCount_origin ==
    /\ pc = "pathCount"
    /\ \E o \in RowAccess(numNodes - 1) :
          IF o = "fault" THEN Fault("out of bounds")
          ELSE LET st == CountPaths(
                            [pathCount |-> [pathCount EXCEPT ![r] = 1],
                             numBushPaths |-> 0], 1)
               IN  /\ pathCount' = st.pathCount
                   /\ numBushPaths' = [numBushPaths EXCEPT ![r] = st.numBushPaths]
                   /\ r' = r + 1
                   /\ pc' = "origin"
                   /\ UNCHANGED <<fault, ret, netVars, arcs, nodes, elts,
                                  heapVars, scratchVars, starVars, bushOrder,
                                  ij, topoVars, msaVars, target>>

\* bush.c:86-88 and convexcombination.c:111-119: initializeBushes returns
\* and initializeSolution calls calculateTarget.
initializeBushes_return ==
    /\ pc = "origin"
    /\ r = numZones
    /\ pathCount' = << >>
    /\ pc' = "calculateTarget"
    /\ ret' = "initializeSolution"
    /\ UNCHANGED <<fault, netVars, arcs, nodes, elts, heapVars, scratchVars,
                   starVars, bushOrder, numBushPaths, r, ij, topoVars,
                   msaVars, target>>

\* ------------------------------------------------- bushShortestPath
Candidate_noCost(sp, h, cost) == sp[h]

\* bush.c:181-182: the label of i by way of its bush predecessor h.
Candidate(sp, h, cost) == RAdd(sp[h], cost)

\* bush.c:175-183, for the arcs as[k..] of the reverse star of node i.
RECURSIVE MinOverReverseStar(_, _, _, _)
MinOverReverseStar(sp, i, as, k) ==
    IF k > Len(as) THEN sp
    ELSE LET h == arcs[as[k]].tail
         IN  MinOverReverseStar(
                [sp EXCEPT ![i] = min(sp[i], Candidate(sp, h, arcs[as[k]].cost))],
                i, as, k + 1)

ResetLabel_keep(sp, i) == sp

\* bush.c:174: the label of i starts at +infinity.
ResetLabel(sp, i) == [sp EXCEPT ![i] = INFINITY]

\* bush.c:172-185, from position curpos on.
RECURSIVE ShortestPathSweep(_, _, _)
ShortestPathSweep(sp, origin, curpos) ==
    IF curpos >= numNodes THEN sp
    ELSE LET i == bushOrder[origin][curpos]
         IN  ShortestPathSweep(
                MinOverReverseStar(ResetLabel(sp, i), i,
                                   ListArcs(elts, bushReverseStar[origin][i]), 1),
                origin, curpos + 1)

bushShortestPath_fromSecond(sp, origin) ==
    ShortestPathSweep([sp EXCEPT ![origin] = Zero], origin, 2)

\* bush.c:167-186.
bushShortestPath(sp, origin) ==
    ShortestPathSweep([sp EXCEPT ![origin] = Zero], origin, 1)

\* -------------------------------------------------------- dialFlows
Likelihood_noTest(sp, a) ==
    ExpTheta(RSub(RSub(sp[arcs[a].head], sp[arcs[a].tail]), arcs[a].cost))

\* bush.c:206-210.
Likelihood(sp, a) ==
    LET i == arcs[a].tail
        j == arcs[a].head
    IN  IF sp[i] = INFINITY THEN Zero
        ELSE ExpTheta(RSub(RSub(sp[j], sp[i]), arcs[a].cost))

\* bush.c:216-222 and 234-240: weight[ij] = nw * likelihood[ij] over the
\* arcs as[k..] (nw is 1 at the origin, where the code copies likelihood).
RECURSIVE SetWeights(_, _, _, _, _)
SetWeights(w, lk, nw, as, k) ==
    IF k > Len(as) THEN w
    ELSE SetWeights([w EXCEPT ![ptr2arc(as[k])] = RMul(nw, lk[ptr2arc(as[k])])],
                    lk, nw, as, k + 1)

RECURSIVE CopyLikelihood(_, _, _, _)
CopyLikelihood(w, lk, as, k) ==
    IF k > Len(as) THEN w
    ELSE CopyLikelihood([w EXCEPT ![ptr2arc(as[k])] = lk[ptr2arc(as[k])]],
                        lk, as, k + 1)

\* The running sum x += v[ij] over the arcs as[k..] (bush.c:227-233 and
\* 265-271).
RECURSIVE Accumulate(_, _, _, _)
Accumulate(x, v, as, k) ==
    IF k > Len(as) THEN x
    ELSE Accumulate(RAdd(x, v[ptr2arc(as[k])]), v, as, k + 1)

\* bush.c:224-242, from position curpos on, on the pair weight, nodeWeight.
RECURSIVE WeightSweep(_, _, _, _)
WeightSweep(st, lk, origin, curpos) ==
    IF curpos >= numNodes THEN st
    ELSE LET i == bushOrder[origin][curpos]
             nw == Accumulate(Zero, st.weight,
                              ListArcs(elts, bushReverseStar[origin][i]), 1)
             w == SetWeights(st.weight, lk, nw,
                             ListArcs(elts, bushForwardStar[origin][i]), 1)
         IN  WeightSweep([weight |-> w,
                          nodeWeight |-> [st.nodeWeight EXCEPT ![i] = nw]],
                         lk, origin, curpos + 1)

Share_noDivide(nf, w, nw) == IF nw = Zero THEN Zero ELSE RMul(nf, w)

\* bush.c:254-257 and 277-280: the part of the node's flow an entering arc
\* takes; nothing when no path of the bush reaches the node.
Share(nf, w, nw) == IF nw = Zero THEN Zero ELSE RMul(nf, RDiv(w, nw))

\* bush.c:249-259 and 272-282: the flow of the arcs as[k..] entering i.
RECURSIVE SetFlows(_, _, _, _, _, _)
SetFlows(fl, w, nwi, nfi, as, k) ==
    IF k > Len(as) THEN fl
    ELSE SetFlows(
            [fl EXCEPT ![ptr2arc(as[k])] = Share(nfi, w[ptr2arc(as[k])], nwi)],
            w, nwi, nfi, as, k + 1)

NodeDemand_transposed(origin, i) ==
    IF i < numZones THEN demand[i][origin] ELSE Zero

\* bush.c:245-247 and 262-264: the demand from the origin that ends at i.
NodeDemand(origin, i) == IF i < numZones THEN demand[origin][i] ELSE Zero

\* bush.c:260-283, from position curpos down, on the pair flow, nodeFlow.
RECURSIVE FlowSweep(_, _, _, _, _)
FlowSweep(st, w, nwt, origin, curpos) ==
    IF curpos < 0 THEN st
    ELSE LET i == bushOrder[origin][curpos]
             nf == Accumulate(NodeDemand(origin, i), st.flow,
                              ListArcs(elts, bushForwardStar[origin][i]), 1)
             fl == SetFlows(st.flow, w, nwt[i], nf,
                            ListArcs(elts, bushReverseStar[origin][i]), 1)
         IN  FlowSweep([flow |-> fl,
                        nodeFlow |-> [st.nodeFlow EXCEPT ![i] = nf]],
                       w, nwt, origin, curpos - 1)

ResetFlow_keep(fl) == fl

\* bush.c:205: the flow of every arc, in the bush or not, starts at 0.
ResetFlow(fl) == [a \in Arcs |-> Zero]

\* bush.c:193-287, on the scratch arrays S.
dialFlows(S, origin) ==
    LET sp == bushShortestPath(S.SPcost, origin)
        lk == [a \in Arcs |-> Likelihood(sp, a)]
        w0 == CopyLikelihood(S.weight, lk,
                             ListArcs(elts, bushForwardStar[origin][origin]), 1)
        ws == WeightSweep([weight |-> w0,
                           nodeWeight |-> [S.nodeWeight EXCEPT ![origin] = One]],
                          lk, origin, 1)
        last == bushOrder[origin][numNodes - 1]
        nfLast == NodeDemand(origin, last)
        f0 == SetFlows(ResetFlow(S.flow), ws.weight, ws.nodeWeight[last],
                       nfLast,
                       ListArcs(elts, bushReverseStar[origin][last]), 1)
        fs == FlowSweep([flow |-> f0,
                         nodeFlow |-> [S.nodeFlow EXCEPT ![last] = nfLast]],
                        ws.weight, ws.nodeWeight, origin, numNodes - 2)
    IN  [SPcost |-> sp, likelihood |-> lk, weight |-> ws.weight,
         nodeWeight |-> ws.nodeWeight, flow |-> fs.flow,
         nodeFlow |-> fs.nodeFlow]

\* -------------------------------------------------- calculateTarget
ResetTarget_keep(t) == t

\* convexcombination.c:74-76: the sum starts from zero on every arc.
ResetTarget(t) == [a \in Arcs |-> Zero]

calculateTarget_begin ==
    /\ pc = "calculateTarget"
    /\ target' = ResetTarget(target)
    /\ r' = 0
    /\ pc' = "dialFlows"
    /\ UNCHANGED <<fault, ret, netVars, arcs, nodes, elts, heapVars,
                   scratchVars, starVars, bushOrder, numBushPaths, ij,
                   pathCount, topoVars, msaVars>>

\* convexcombination.c:77-82: one pass of the loop over the origins,
\* dialFlows(r) and the sum into target.
calculateTarget_origin ==
    /\ pc = "dialFlows"
    /\ \E o \in RowAccess(numNodes - 1) :
          IF o = "fault" THEN Fault("out of bounds")
          ELSE LET S == dialFlows([SPcost |-> SPcost, flow |-> flow,
                                   nodeFlow |-> nodeFlow, weight |-> weight,
                                   nodeWeight |-> nodeWeight,
                                   likelihood |-> likelihood], r)
               IN  /\ SPcost' = S.SPcost
                   /\ flow' = S.flow
                   /\ nodeFlow' = S.nodeFlow
                   /\ weight' = S.weight
                   /\ nodeWeight' = S.nodeWeight
                   /\ likelihood' = S.likelihood
                   /\ target' = [a \in Arcs |-> RAdd(target[a], S.flow[a])]
                   /\ r' = r + 1
                   /\ pc' = IF r + 1 < numZones THEN "dialFlows" ELSE ret
                   /\ UNCHANGED <<fault, ret, netVars, arcs, nodes, elts,
                                  heapVars, starVars, bushOrder, numBushPaths,
                                  ij, pathCount, topoVars, msaVars>>

\* ---------------------------------------------------------- SUE_MSA
\* What clock() may add to elapsedTime over one pass of the loop, in
\* seconds; the initialization takes less than one.
ClockSteps == {0, MAX_TIME + 1}

\* convexcombination.c:120-124 and 25-30: the initial flows; the target of
\* initializeSolution is freed, the one of SUE_MSA is still unwritten.
initializeSolution_return ==
    /\ pc = "initializeSolution"
    /\ arcs' = [a \in Arcs |-> [arcs[a] EXCEPT !.flow = target[a]]]
    /\ target' = [a \in Arcs |-> NaN]
    /\ pc' = "updateLinkCosts"
    /\ UNCHANGED <<fault, ret, netVars, nodes, elts, heapVars, scratchVars,
                   starVars, bushOrder, numBushPaths, r, ij, pathCount,
                   topoVars, msaVars>>

\* The pass that sorts the arcs into the bushes anew at the new costs.
updateLinkCosts_rebuild ==
    /\ pc = "updateLinkCosts"
    /\ converged = FALSE
    /\ iteration < MaxPasses
    /\ arcs' = [a \in Arcs |-> [arcs[a] EXCEPT !.cost = calculateCost(arcs[a])]]
    /\ r' = 0
    /\ pc' = "origin"
    /\ ret' = "avgFlowDiff"
    /\ UNCHANGED <<fault, netVars, nodes, elts, heapVars, scratchVars,
                   starVars, bushOrder, numBushPaths, ij, pathCount,
                   topoVars, msaVars, target>>

\* networks.c:167-173, at convexcombination.c:31-33.  The model follows
\* the first MaxPasses passes of the loop.
updateLinkCosts ==
    /\ pc = "updateLinkCosts"
    /\ converged = FALSE
    /\ iteration < MaxPasses
    /\ arcs' = [a \in Arcs |-> [arcs[a] EXCEPT !.cost = calculateCost(arcs[a])]]
    /\ pc' = "calculateTarget"
    /\ ret' = "avgFlowDiff"
    /\ UNCHANGED <<fault, netVars, nodes, elts, heapVars, scratchVars,
                   starVars, bushOrder, numBushPaths, r, ij, pathCount,
                   topoVars, msaVars, target>>

\* convexcombination.c:89-96.
RECURSIVE SumAbsDiff(_)
SumAbsDiff(a) ==
    IF a = numArcs THEN Zero
    ELSE RAdd(RAbs(RSub(arcs[a].flow, target[a])), SumAbsDiff(a + 1))

avgFlowDiff == RDiv(SumAbsDiff(0), R(numArcs))

IterationCapReached_late(it) == it > MAX_ITERATIONS

\* convexcombination.c:44: the test of the iteration cap.
IterationCapReached(it) == it >= MAX_ITERATIONS

\* convexcombination.c:34-46: the difference, the clock and the three stop
\* tests.
SUE_MSA_test ==
    /\ pc = "avgFlowDiff"
    /\ \E dt \in ClockSteps :
          LET d == avgFlowDiff
              t == elapsedTime + dt
              c1 == IF t > MAX_TIME THEN TRUE ELSE converged
              c2 == IF IterationCapReached(iteration) THEN TRUE ELSE c1
              c3 == IF RLess(d, LINK_FLOW_TOLERANCE) THEN TRUE ELSE c2
          IN  /\ diff' = d
              /\ elapsedTime' = t
              /\ converged' = c3
              /\ pc' = IF c3 = TRUE THEN "return" ELSE "shiftFlows"
    /\ UNCHANGED <<fault, ret, netVars, arcs, nodes, elts, heapVars,
                   scratchVars, starVars, bushOrder, numBushPaths, r, ij,
                   pathCount, topoVars, iteration, target>>

\* convexcombination.c:59-65 and 48-49.
ShiftedFlow_noCarry(x, t, stepSize) == RMul(stepSize, RSub(t, x))

ShiftedFlow(x, t, stepSize) == RAdd(x, RMul(stepSize, RSub(t, x)))

\* The shift placed behind updateLinkCosts: the next pass loads the bushes
\* at the costs of the flows before the shift.
shiftFlows_afterCosts ==
    /\ pc = "shiftFlows"
    /\ arcs' = [a \in Arcs |->
                 [arcs[a] EXCEPT !.flow = ShiftedFlow(arcs[a].flow, target[a],
                                                      lambda)]]
    /\ iteration' = iteration + 1
    /\ pc' = "calculateTarget"
    /\ UNCHANGED <<fault, ret, netVars, nodes, elts, heapVars, scratchVars,
                   starVars, bushOrder, numBushPaths, r, ij, pathCount,
                   topoVars, converged, elapsedTime, diff, target>>

shiftFlows ==
    /\ pc = "shiftFlows"
    /\ arcs' = [a \in Arcs |->
                 [arcs[a] EXCEPT !.flow = ShiftedFlow(arcs[a].flow, target[a],
                                                      lambda)]]
    /\ iteration' = iteration + 1
    /\ pc' = "updateLinkCosts"
    /\ UNCHANGED <<fault, ret, netVars, nodes, elts, heapVars, scratchVars,
                   starVars, bushOrder, numBushPaths, r, ij, pathCount,
                   topoVars, converged, elapsedTime, diff, target>>

\* convexcombination.c:51-52: the target and the bushes are freed.
SUE_MSA_return ==
    /\ pc = "return"
    /\ target' = << >>
    /\ SPcost' = << >> /\ flow' = << >> /\ nodeFlow' = << >>
    /\ weight' = << >> /\ nodeWeight' = << >> /\ likelihood' = << >>
    /\ bushOrder' = << >>
    /\ bushForwardStar' = << >> /\ bushReverseStar' = << >>
    /\ numBushLinks' = << >> /\ numBushPaths' = << >>
    /\ pc' = "done"
    /\ UNCHANGED <<fault, ret, netVars, arcs, nodes, elts, heapVars, r, ij,
                   pathCount, topoVars, msaVars>>

Next ==
    \/ finalizeNetwork
    \/ initializeBushes_begin
    \/ origin_begin
    \/ shortestPath_step
    \/ shortestPath_return
    \/ reasonable_arc
    \/ bushTopologicalOrder_begin
    \/ bushTopologicalOrder_step
    \/ bushTopologicalOrder_end
    \/ pathCount_origin
    \/ initializeBushes_return
    \/ calculateTarget_begin
    \/ calculateTarget_origin
    \/ initializeSolution_return
    \/ updateLinkCosts
    \/ SUE_MSA_test
    \/ shiftFlows
    \/ SUE_MSA_return

Spec == Init /\ [][Next]_vars

\* ------------------------------------------------ the loop to its caps
\* Spec follows the first MaxPasses passes of the loop of SUE_MSA in full.
\* The passes after them are followed by their outcome only: updateLinkCosts
\* sets the costs, and calculateTarget may leave any target, here the
\* current flows (a difference of 0) or the current flows plus one (a
\* difference of 1), so that the difference takes every sequence of values
\* below and above LINK_FLOW_TOLERANCE.  The scratch arrays of the bushes
\* are not followed in these passes.
PassTargets ==
    {[a \in Arcs |-> arcs[a].flow], [a \in Arcs |-> RAdd(arcs[a].flow, One)]}

\* convexcombination.c:32-33, by outcome.
SUE_MSA_pass ==
    /\ pc = "updateLinkCosts"
    /\ converged = FALSE
    /\ iteration >= MaxPasses
    /\ arcs' = [a \in Arcs |-> [arcs[a] EXCEPT !.cost = calculateCost(arcs[a])]]
    /\ target' \in PassTargets
    /\ r' = numZones
    /\ ret' = "avgFlowDiff"
    /\ pc' = "avgFlowDiff"
    /\ UNCHANGED <<fault, netVars, nodes, elts, heapVars, scratchVars,
                   starVars, bushOrder, numBushPaths, ij, pathCount,
                   topoVars, msaVars>>

CapNext == Next \/ SUE_MSA_pass

CapSpec == Init /\ [][CapNext]_vars

\* -------------------------------------------- the cost evaluators alone
\* One arc of any flow from -MaxFlow to MaxFlow, with the selector
\* readTntpNetwork gives its beta (fileio.c:157-163), and one call of the
\* selected evaluator, as updateLinkCosts makes it (networks.c:170-171).
BprBetas == {1, 2, 4}
BprAlphas == {0, 1}

BprArc(x, f, c, al, be, fc) ==
    [tail |-> 0, head |-> 1, flow |-> R(x), cost |-> R(f),
     freeFlowTime |-> R(f), capacity |-> R(c), length |-> Zero, toll |-> Zero,
     alpha |-> R(al), beta |-> be, fixedCost |-> R(fc),
     calculateCost |-> CostSelector(be)]

BprInit ==
    /\ numNodes = 2 /\ numArcs = 1 /\ numZones = 1 /\ firstThroughNode = 1
    /\ arcs \in { [a \in {0} |-> BprArc(x, f, c, al, be, fc)] :
                    x \in -MaxFlow .. MaxFlow, f \in 0 .. MaxFreeFlow,
                    c \in 1 .. MaxFlow, al \in BprAlphas, be \in BprBetas,
                    fc \in 0 .. MaxDemand }
    /\ demand = [z \in {0} |-> [y \in {0} |-> Zero]]
    /\ lambda \in StepSizes
    /\ nodes = [i \in {0, 1} |-> [forwardStar |-> NaN, reverseStar |-> NaN]]
    /\ elts = << >>
    /\ pc = "calculateCost"
    /\ fault = "none"
    /\ ret = "none"
    /\ valueFn = << >> /\ heap = {} /\ curnode = NO_PATH_EXISTS
    /\ SPcost = << >> /\ flow = << >> /\ nodeFlow = << >>
    /\ weight = << >> /\ nodeWeight = << >> /\ likelihood = << >>
    /\ bushOrder = << >> /\ bushForwardStar = << >> /\ bushReverseStar = << >>
    /\ numBushLinks = << >> /\ numBushPaths = << >>
    /\ r = 0 /\ ij = 0 /\ pathCount = << >>
    /\ indegree = << >> /\ LIST = << >> /\ next = 0
    /\ converged = FALSE /\ iteration = 0 /\ elapsedTime = 0
    /\ diff = INFINITY /\ target = << >>
    /\ tripFile = << >>

calculateCost_call ==
    /\ pc = "calculateCost"
    /\ arcs' = [a \in Arcs |-> [arcs[a] EXCEPT !.cost = calculateCost(arcs[a])]]
    /\ pc' = "cost"
    /\ UNCHANGED <<fault, ret, netVars, nodes, elts, heapVars, scratchVars,
                   starVars, bushOrder, numBushPaths, r, ij, pathCount,
                   topoVars, msaVars, target>>

BprSpec == BprInit /\ [][calculateCost_call]_vars

\* ------------------------------------------------ the trip table alone
\* The lines of a trip file after its metadata: a header "Origin k" or an
\* entry "j : d;" (a line of several entries is read as the same entries on
\* lines of their own).  A file opens with a header.
OriginLine(k) == [kind |-> "Origin", n |-> k, d |-> 0]
EntryLine(j, x) == [kind |-> "entry", n |-> j, d |-> x]

TripLines(Z) ==
    {OriginLine(k) : k \in 1 .. Z}
       \cup {EntryLine(j, x) : j \in 1 .. Z, x \in -1 .. MaxDemand}

TripFiles(Z) ==
    {f \in UNION {[1 .. n -> TripLines(Z)] : n \in 1 .. MaxLines} :
        f[1].kind = "Origin"}

\* fileio.c:95-100.
NoDemand == [z \in Zones |-> [y \in Zones |-> Zero]]

\* fileio.c:198-223, from line k of the file on: d is the matrix, i the
\* current origin; the row written at fileio.c:218 is r.
RECURSIVE readTripTable(_, _, _, _)
readTripTable(f, k, d, i) ==
    IF k > Len(f) THEN [demand |-> d, status |-> "read"]
    ELSE IF f[k].n <= 0 \/ f[k].n > numZones
         THEN [demand |-> d, status |-> "fatalError"]
    ELSE IF f[k].kind = "Origin" THEN readTripTable(f, k + 1, d, f[k].n - 1)
    ELSE LET j == f[k].n - 1
             d1 == [d EXCEPT ![r][j] = R(f[k].d)]
         IN  IF f[k].d < 0 THEN [demand |-> d1, status |-> "fatalError"]
             ELSE readTripTable(f, k + 1, d1, i)

TripInit ==
    /\ numNodes = MaxZones /\ numArcs = 1 /\ numZones = MaxZones
    /\ firstThroughNode = 0
    /\ arcs = [a \in {0} |-> InputArc(0, 1, 0)]
    /\ demand = [z \in 0 .. MaxZones - 1 |-> [y \in 0 .. MaxZones - 1 |-> Zero]]
    /\ tripFile \in TripFiles(MaxZones)
    /\ lambda \in StepSizes
    /\ nodes = [i \in 0 .. MaxZones - 1 |->
                  [forwardStar |-> NaN, reverseStar |-> NaN]]
    /\ elts = << >>
    /\ pc = "readTntpNetwork"
    /\ fault = "none"
    /\ ret = "none"
    /\ valueFn = << >> /\ heap = {} /\ curnode = NO_PATH_EXISTS
    /\ SPcost = << >> /\ flow = << >> /\ nodeFlow = << >>
    /\ weight = << >> /\ nodeWeight = << >> /\ likelihood = << >>
    /\ bushOrder = << >> /\ bushForwardStar = << >> /\ bushReverseStar = << >>
    /\ numBushLinks = << >> /\ numBushPaths = << >>
    /\ r = 0 /\ ij = 0 /\ pathCount = << >>
    /\ indegree = << >> /\ LIST = << >> /\ next = 0
    /\ converged = FALSE /\ iteration = 0 /\ elapsedTime = 0
    /\ diff = INFINITY /\ target = << >>

\* fileio.c:197-227: the trip table is read, and finalizeNetwork is next
\* unless fatalError ended the program.
readTntpNetwork_trips ==
    /\ pc = "readTntpNetwork"
    /\ LET t == readTripTable(tripFile, 1, NoDemand, NO_PATH_EXISTS)
       IN  /\ demand' = t.demand
           /\ pc' = IF t.status = "fatalError" THEN "fatalError"
                    ELSE "finalizeNetwork"
    /\ UNCHANGED <<fault, ret, numNodes, numArcs, numZones, firstThroughNode,
                   lambda, tripFile, arcs, nodes, elts, heapVars, scratchVars,
                   starVars, bushOrder, numBushPaths, r, ij, pathCount,
                   topoVars, msaVars, target>>

TripSpec == TripInit /\ [][readTntpNetwork_trips]_vars

\* ====================================================== properties
\* The bushes are built: initializeBushes has returned and deleteBushes has
\* not run.
BushesBuilt ==
    pc \in {"calculateTarget", "dialFlows", "initializeSolution",
            "updateLinkCosts", "avgFlowDiff", "shiftFlows", "return"}

\* dialFlows has just run for origin r - 1.
AfterDial ==
    \/ pc = "dialFlows" /\ r >= 1
    \/ pc \in {"initializeSolution", "avgFlowDiff"}

Occurrences(seq, x) == Cardinality({k \in 1 .. Len(seq) : seq[k] = x})

ForwardArcs(o, n) == ListArcs(elts, bushForwardStar[o][n])
ReverseArcs(o, n) == ListArcs(elts, bushReverseStar[o][n])

\* The arcs of bush o: those in some forward star of o.
BushArcs(o) ==
    {a \in Arcs : \E n \in Nodes : Occurrences(ForwardArcs(o, n), a) > 0}

\* The labels shortestPath returns from origin o at the current costs: the
\* loop of networks.c:40-60 run to its end (the labels do not depend on
\* which of two equal keys the heap gives first).
RECURSIVE DijkstraLoop(_, _)
DijkstraLoop(h, fuel) ==
    IF h.members = {} \/ fuel = 0 THEN h.valueFn
    ELSE LET c == CHOOSE x \in findMinHeap(h) : TRUE
         IN  DijkstraLoop(Relax(deleteMinHeap(h, c), c,
                                ListArcs(elts, nodes[c].forwardStar), 1),
                          fuel - 1)

ShortestPathLabels(o) ==
    DijkstraLoop(insertHeap([valueFn |-> [j \in Nodes |-> INFINITY],
                             members |-> {}], o, Zero),
                 numNodes * (numArcs + 1))

\* C1: when the arcs have been sorted into bush r, and again when
\* initializeBushes has returned, an arc (i,j) is once in the forward star
\* of i and once in the reverse star of j if L(i) < L(j) for the labels L
\* of shortestPath, and in no list of the bush otherwise; numBushLinks
\* counts the arcs with L(i) < L(j).
BushIsReasonableSet(o, L) ==
    /\ \A a \in Arcs : \A n \in Nodes :
          /\ Occurrences(ForwardArcs(o, n), a) =
                IF n = arcs[a].tail /\ RLess(L[arcs[a].tail], L[arcs[a].head])
                THEN 1 ELSE 0
          /\ Occurrences(ReverseArcs(o, n), a) =
                IF n = arcs[a].head /\ RLess(L[arcs[a].tail], L[arcs[a].head])
                THEN 1 ELSE 0
    /\ numBushLinks[o] =
          Cardinality({a \in Arcs : RLess(L[arcs[a].tail], L[arcs[a].head])})

C1_ReasonableArcs ==
    /\ pc = "bushTopologicalOrder" => BushIsReasonableSet(r, SPcost)
    /\ pc = "calculateTarget" /\ ret = "initializeSolution" =>
          \A o \in Zones : BushIsReasonableSet(o, ShortestPathLabels(o))

\* C1 witness: initializeBushes has returned with a bush of two arcs or
\* more that leaves out an arc between two nodes of equal finite label.
C1_Witness ==
    /\ pc = "calculateTarget" /\ ret = "initializeSolution"
    /\ \E o \in Zones :
          LET L == ShortestPathLabels(o)
          IN  /\ numBushLinks[o] >= 2
              /\ \E a \in Arcs :
                    /\ arcs[a].tail # arcs[a].head
                    /\ IsFinite(L[arcs[a].tail])
                    /\ L[arcs[a].tail] = L[arcs[a].head]
                    /\ a \notin BushArcs(o)

\* The slots of bushOrder[o] that hold node n.
Slots(o, n) == {k \in Nodes : bushOrder[o][k] = n}

\* C2: when bushTopologicalOrder has returned for origin r, and for every
\* origin once initializeBushes has returned: for every arc (i,j) of the
\* bush, i has a slot in bushOrder and j has one, and every slot of i lies
\* before every slot of j.
TailBeforeHead(o) ==
    \A a \in BushArcs(o) :
       /\ Slots(o, arcs[a].tail) # {}
       /\ Slots(o, arcs[a].head) # {}
       /\ \A ki \in Slots(o, arcs[a].tail) :
             \A kj \in Slots(o, arcs[a].head) : ki < kj

C2_TopologicalOrder ==
    /\ pc = "pathCount" => TailBeforeHead(r)
    /\ BushesBuilt => \A o \in Zones : TailBeforeHead(o)

\* C2 witness: a bush holds an arc from a node of higher index to a node of
\* lower index, neither of them the origin, so that the order of the nodes
\* is not the order of their indices.
C2_Witness ==
    /\ BushesBuilt
    /\ \E o \in Zones : \E a \in BushArcs(o) :
          /\ arcs[a].tail # o
          /\ arcs[a].tail > arcs[a].head

\* C3: when bushTopologicalOrder has returned for origin r, bushOrder[r]
\* holds every node index once and its slot 0 holds r; the same is true of
\* every origin once initializeBushes has returned.
IsPermutation(o) ==
    /\ \A n \in Nodes : Cardinality(Slots(o, n)) = 1
    /\ bushOrder[o][0] = o

C3_OrderIsPermutation ==
    /\ pc = "pathCount" => IsPermutation(r)
    /\ BushesBuilt => \A o \in Zones : IsPermutation(o)

\* C3 witness: bushTopologicalOrder has returned for an origin that is not
\* node 0 and that cannot reach some node, which is in the order all the
\* same.
C3_Witness ==
    /\ pc = "pathCount"
    /\ r > 0
    /\ \E n \in Nodes : SPcost[n] = INFINITY /\ Slots(r, n) # {}

IsAscending(seq) == \A k \in 1 .. Len(seq) - 1 : seq[k] < seq[k + 1]

\* C4: once initializeBushes has returned, every forward star and every
\* reverse star of every bush lists its arcs in ascending order of arc ID.
C4_AscendingArcOrder ==
    BushesBuilt =>
       \A o \in Zones : \A n \in Nodes :
          /\ IsAscending(ForwardArcs(o, n))
          /\ IsAscending(ReverseArcs(o, n))

\* The paths of at most numNodes - 1 arcs of the set A from o to j whose
\* interior nodes all lie in the set through.
PathsVia(A, o, j, through) ==
    {p \in UNION {[1 .. k -> A] : k \in 1 .. numNodes - 1} :
        /\ arcs[p[1]].tail = o
        /\ arcs[p[Len(p)]].head = j
        /\ \A k \in 1 .. Len(p) - 1 :
              /\ arcs[p[k]].head = arcs[p[k + 1]].tail
              /\ arcs[p[k]].head \in through}

RECURSIVE PathCost(_, _)
PathCost(p, k) ==
    IF k > Len(p) THEN Zero ELSE RAdd(arcs[p[k]].cost, PathCost(p, k + 1))

\* The least cost of a path of arcs of A from o to j through the given
\* interior nodes: 0 at the origin, INFINITY where there is no such path.
LeastCost(A, o, j, through) ==
    IF j = o THEN Zero
    ELSE LET costs == {PathCost(p, 1) : p \in PathsVia(A, o, j, through)}
         IN  IF costs = {} THEN INFINITY
             ELSE CHOOSE x \in costs : \A y \in costs : RLeq(x, y)

ThroughNodes == {n \in Nodes : n >= firstThroughNode}

\* C5: the labels shortestPath returns from origin r are, for every node j,
\* the least cost of a path from r to j with no centroid among its interior
\* nodes (0 for j = r, INFINITY when there is none); and while
\* shortestPath runs, no centroid other than r is on the heap or is the
\* node being expanded.
C5_DijkstraLabels ==
    /\ pc = "reasonable" =>
          \A j \in Nodes : SPcost[j] = LeastCost(Arcs, r, j, ThroughNodes)
    /\ pc = "shortestPath" =>
          /\ \A c \in heap : c = r \/ c >= firstThroughNode
          /\ curnode # NO_PATH_EXISTS =>
                (curnode = r \/ curnode >= firstThroughNode)

\* C5 witness: shortestPath has returned a label that differs from the
\* least cost over all paths, those through centroids included.
C5_Witness ==
    /\ pc = "reasonable"
    /\ \E j \in Nodes : SPcost[j] # LeastCost(Arcs, r, j, Nodes)

\* C6: once initializeBushes has returned, no bush holds an arc whose tail
\* is a centroid other than the bush's origin, and after dialFlows no arc
\* out of such a centroid has flow.
C6_NoCentroidTransit ==
    /\ BushesBuilt =>
          \A o \in Zones : \A a \in BushArcs(o) :
             arcs[a].tail = o \/ arcs[a].tail >= firstThroughNode
    /\ AfterDial =>
          \A a \in Arcs :
             (arcs[a].tail # r - 1 /\ arcs[a].tail < firstThroughNode) =>
                flow[a] = Zero

RECURSIVE SumOver(_, _, _)
SumOver(v, seq, k) ==
    IF k > Len(seq) THEN Zero ELSE RAdd(v[seq[k]], SumOver(v, seq, k + 1))

\* The flow of bush o into node i and out of it.
InFlow(o, i) == SumOver(flow, ReverseArcs(o, i), 1)
OutFlow(o, i) == SumOver(flow, ForwardArcs(o, i), 1)

\* The nodes a path of bush o reaches from o.
RECURSIVE Reach(_, _, _)
Reach(o, S, fuel) ==
    LET T == S \cup {arcs[a].head : a \in {b \in BushArcs(o) : arcs[b].tail \in S}}
    IN  IF T = S \/ fuel = 0 THEN S ELSE Reach(o, T, fuel - 1)

BushReach(o) == Reach(o, {o}, numNodes)

\* The demand from o to the zones of the set S other than o, summed from
\* zone z on.
RECURSIVE DemandTo(_, _, _)
DemandTo(o, S, z) ==
    IF z >= numZones THEN Zero
    ELSE RAdd(IF z # o /\ z \in S THEN demand[o][z] ELSE Zero,
              DemandTo(o, S, z + 1))

\* Conservation of the flow of origin o when the demand of the zones in S
\* is the demand that is loaded.
Conserved(o, S) ==
    /\ \A i \in Nodes \ {o} :
          RSub(InFlow(o, i), OutFlow(o, i)) =
             IF i < numZones /\ i \in S THEN demand[o][i] ELSE Zero
    /\ OutFlow(o, o) = DemandTo(o, S, 0)

\* C7 as the spec states it: after dialFlows(r), every node other than r
\* takes in its demand from r more than it sends out (nothing when it is
\* not a zone), and r sends out the whole demand of its row.
C7_FlowConservation == AfterDial => Conserved(r - 1, Nodes)

\* C7 as the code has it: after dialFlows(r) the same balance holds with
\* the demand of the zones that bush r reaches; a zone the bush does not
\* reach gets none of its demand and no arc into it or out of it has flow.
C7_ConservationWhereReached ==
    AfterDial =>
       /\ Conserved(r - 1, BushReach(r - 1))
       /\ \A i \in Nodes \ BushReach(r - 1) :
             /\ InFlow(r - 1, i) = Zero
             /\ OutFlow(r - 1, i) = Zero

\* C7 witness: dialFlows has run for an origin with demand to a zone its
\* bush does not reach.
C7_Witness ==
    /\ AfterDial
    /\ \E i \in Zones \ BushReach(r - 1) : RLess(Zero, demand[r - 1][i])

NonNegative(x) == IsFinite(x) /\ RLeq(Zero, x)

\* The initial flows are set: initializeSolution has returned.
FlowsSet ==
    \/ pc \in {"updateLinkCosts", "return"}
    \/ /\ ret = "avgFlowDiff"
       /\ pc \in {"calculateTarget", "dialFlows", "avgFlowDiff", "shiftFlows"}

\* C8: with non-negative demand, no arc has negative flow after dialFlows,
\* no arc has a negative target while the target is summed or held, no
\* arc of the network has negative flow after initializeSolution or after
\* shiftFlows, and where shiftFlows is about to run, its step from these
\* flows to this target is non-negative for the step sizes 0, lambda, 1.
C8_NonNegativeFlows ==
    /\ AfterDial =>
          \A a \in Arcs : NonNegative(flow[a]) /\ NonNegative(target[a])
    /\ FlowsSet => \A a \in Arcs : NonNegative(arcs[a].flow)
    /\ pc = "shiftFlows" =>
          \A a \in Arcs : \A s \in {Zero, lambda, One} :
             /\ NonNegative(target[a])
             /\ NonNegative(ShiftedFlow(arcs[a].flow, target[a], s))

\* C8 witness: shiftFlows has moved an arc with flow towards a target
\* below its flow.
C8_Witness ==
    /\ pc = "updateLinkCosts"
    /\ iteration >= 1
    /\ \E a \in Arcs :
          /\ RLess(Zero, arcs[a].flow)
          /\ RLess(target[a], arcs[a].flow)

\* The exponent of the likelihood of arc a, before the factor theta.
Exponent(a) ==
    RSub(RSub(SPcost[arcs[a].head], SPcost[arcs[a].tail]), arcs[a].cost)

\* Arc a lies on a shortest path of bush o from o to the head of a.
IsTight(o, a) ==
    LET B == BushArcs(o)
        di == LeastCost(B, o, arcs[a].tail, Nodes)
        dj == LeastCost(B, o, arcs[a].head, Nodes)
    IN  IsFinite(di) /\ dj = RAdd(di, arcs[a].cost)

\* C9: after dialFlows(r), for every arc (i,j) of bush r the exponent
\* SPcost[j] - SPcost[i] - cost is finite and at most 0, it is 0 exactly
\* when the arc lies on a shortest path of the bush from r to j, and the
\* likelihood is its exponential, in (0, 1].
C9_LikelihoodBound ==
    AfterDial =>
       \A a \in BushArcs(r - 1) :
          /\ IsFinite(Exponent(a))
          /\ RLeq(Exponent(a), Zero)
          /\ (Exponent(a) = Zero) <=> IsTight(r - 1, a)
          /\ likelihood[a] = ExpTheta(Exponent(a))
          /\ RLess(Zero, likelihood[a]) /\ RLeq(likelihood[a], One)
          /\ (likelihood[a] = One) <=> IsTight(r - 1, a)

\* C9 witness: dialFlows has run on a bush with an arc that is on a
\* shortest path and an arc that is not.
C9_Witness ==
    /\ AfterDial
    /\ \E a, b \in BushArcs(r - 1) :
          /\ IsTight(r - 1, a)
          /\ RLess(Exponent(b), Zero)

\* C10: when SUE_MSA leaves its loop with the flag converged set, the last
\* difference is below LINK_FLOW_TOLERANCE; a stop on the time cap or the
\* iteration cap with a larger difference leaves the flag false.
C10_ConvergedMeansTolerance ==
    pc = "return" =>
       (converged = TRUE => RLess(diff, LINK_FLOW_TOLERANCE))

\* C11: SUE_MSA never applies more than MAX_ITERATIONS shifts (iteration
\* counts them, one per shiftFlows), and when it leaves the loop with the
\* difference not below the tolerance and the time cap not passed, it has
\* applied exactly MAX_ITERATIONS.
C11_IterationCap ==
    /\ iteration <= MAX_ITERATIONS
    /\ pc \in {"return", "done"} =>
          (~RLess(diff, LINK_FLOW_TOLERANCE) /\ elapsedTime <= MAX_TIME =>
              iteration = MAX_ITERATIONS)

\* C11 witness: SUE_MSA has returned after MAX_ITERATIONS shifts with the
\* difference still at the tolerance or above and the time cap not passed.
C11_Witness ==
    /\ pc = "done"
    /\ iteration = MAX_ITERATIONS
    /\ elapsedTime <= MAX_TIME
    /\ ~RLess(diff, LINK_FLOW_TOLERANCE)

\* C12: every run of SUE_MSA eventually returns, so that no run ends before
\* its return: the program is never stopped by a fault or by fatalError.
C12_NoRunStopsShort == pc \notin {"fault", "fatalError"}

\* The bushes as SUE_MSA holds them: the counts, the orders, the lists and
\* the elements the lists are made of.
bushes == <<numBushLinks, numBushPaths, bushOrder, bushForwardStar,
            bushReverseStar, elts>>

\* C13: once initializeBushes has returned, no step of SUE_MSA before
\* deleteBushes changes bushOrder, a forward or reverse star of a bush,
\* numBushLinks or numBushPaths.
C13_BushesFixed ==
    [][(ret # "none" /\ pc # "return") => UNCHANGED bushes]_vars

\* C13 witness: a pass of the loop has set new costs and loaded the bushes,
\* and a bush that holds arcs is no longer the set of the arcs with
\* L(i) < L(j) at these costs.
C13_Witness ==
    /\ pc = "avgFlowDiff"
    /\ \E o \in Zones :
          /\ numBushLinks[o] > 0
          /\ ~BushIsReasonableSet(o, ShortestPathLabels(o))

\* The shared arrays of the bushes as newVector leaves them (bush.c:16-21).
UnwrittenScratch ==
    [SPcost |-> [i \in Nodes |-> NaN], flow |-> [a \in Arcs |-> NaN],
     nodeFlow |-> [i \in Nodes |-> NaN], weight |-> [a \in Arcs |-> NaN],
     nodeWeight |-> [i \in Nodes |-> NaN], likelihood |-> [a \in Arcs |-> NaN]]

\* The flows dialFlows(o) produces at the current costs.
OriginFlow(o) == dialFlows(UnwrittenScratch, o).flow

\* The sum over the origins below k of the flow dialFlows gives arc a.
RECURSIVE SumOfOrigins(_, _)
SumOfOrigins(a, k) ==
    IF k = 0 THEN Zero ELSE RAdd(SumOfOrigins(a, k - 1), OriginFlow(k - 1)[a])

\* C14: after calculateTarget, target[ij] is the sum over all origins of the
\* flow dialFlows(r) produces for ij at the current costs, whatever target
\* held before; inside the call, after the pass of origin r - 1, flow is
\* that origin's flow and target is the sum over the origins below r.
C14_TargetIsSumOverOrigins ==
    /\ pc \in {"initializeSolution", "avgFlowDiff"} =>
          /\ r = numZones
          /\ \A a \in Arcs : target[a] = SumOfOrigins(a, numZones)
    /\ pc = "dialFlows" =>
          /\ r < numZones
          /\ \A a \in Arcs : target[a] = SumOfOrigins(a, r)
          /\ r >= 1 => flow = OriginFlow(r - 1)

\* C14 witness: calculateTarget has returned in the loop, over the target
\* SUE_MSA allocated and never wrote, and each of two origins has put flow
\* on an arc.
C14_Witness ==
    /\ pc = "avgFlowDiff"
    /\ numZones = 2
    /\ \A o \in Zones : \E a \in Arcs : RLess(Zero, OriginFlow(o)[a])
    /\ \A a \in Arcs : IsFinite(target[a])

\* C15: the evaluator selected for an arc returns the cost generalBPRcost
\* returns for it, at every flow; at a flow of zero or less that cost is
\* fixedCost + freeFlowTime.
C15_EvaluatorsAgree ==
    pc = "cost" =>
       \A a \in Arcs :
          /\ arcs[a].cost = generalBPRcost(arcs[a])
          /\ RLeq(arcs[a].flow, Zero) =>
                arcs[a].cost = RAdd(arcs[a].fixedCost, arcs[a].freeFlowTime)

\* C16: the cycle error of bushTopologicalOrder is never raised: when the
\* queue runs empty, the order holds all numNodes nodes.
C16_NoCycleError ==
    /\ pc # "fatalError"
    /\ pc = "pathCount" => next = numNodes

\* C16 witness: the order of a bush with arcs is complete in a network that
\* has a cycle of two arcs, one of them in the bush.
C16_Witness ==
    /\ pc = "pathCount"
    /\ next = numNodes
    /\ \E a \in BushArcs(r) : \E b \in Arcs :
          /\ arcs[a].tail # arcs[a].head
          /\ arcs[b].tail = arcs[a].head
          /\ arcs[b].head = arcs[a].tail

\* C17: after dialFlows(r), at a node i that no path of bush r reaches,
\* SPcost[i] is +infinity, nodeWeight[i] is 0, every arc with tail i has
\* likelihood 0 and every arc entering or leaving i has flow 0, also when
\* demand[r][i] > 0; and no flow is the result of a division by a zero
\* nodeWeight: every flow is a finite number.
C17_DisconnectedDestination ==
    AfterDial =>
       /\ \A i \in Nodes \ BushReach(r - 1) :
             /\ SPcost[i] = INFINITY
             /\ nodeWeight[i] = Zero
             /\ \A a \in Arcs :
                   /\ arcs[a].tail = i => likelihood[a] = Zero
                   /\ arcs[a].tail = i \/ arcs[a].head = i => flow[a] = Zero
       /\ \A a \in Arcs : IsFinite(flow[a])

\* C17 witness: dialFlows has run for an origin with demand to a zone its
\* bush does not reach, a zone that has an arc entering and an arc leaving.
C17_Witness ==
    /\ AfterDial
    /\ \E i \in Zones \ BushReach(r - 1) :
          /\ RLess(Zero, demand[r - 1][i])
          /\ \E a \in Arcs : arcs[a].tail = i
          /\ \E a \in Arcs : arcs[a].head = i

\* Origin o has no demand to any zone.
ZeroDemandOrigin(o) == \A j \in Zones : demand[o][j] = Zero

\* C18: for an origin r with demand[r][j] = 0 for every zone j,
\* dialFlows(r) leaves flow[ij] = 0 on every arc, and initializeBushes
\* sets numBushPaths[r] = 0.
C18_ZeroDemandOrigin ==
    /\ AfterDial /\ ZeroDemandOrigin(r - 1) => \A a \in Arcs : flow[a] = Zero
    /\ pc = "origin" =>
          \A o \in 0 .. r - 1 : ZeroDemandOrigin(o) => numBushPaths[o] = 0
    /\ BushesBuilt =>
          \A o \in Zones : ZeroDemandOrigin(o) => numBushPaths[o] = 0

\* C18 witness: dialFlows has run for an origin without demand whose bush
\* has a path to another zone, a zone with demand to that origin.
C18_Witness ==
    /\ AfterDial
    /\ ZeroDemandOrigin(r - 1)
    /\ numBushPaths[r - 1] = 0
    /\ \E j \in (Zones \cap BushReach(r - 1)) \ {r - 1} :
          RLess(Zero, demand[j][r - 1])

\* C19: after dialFlows(r), flow[ij] = 0 on every arc that is not in bush
\* r, whatever the shared array held before.
C19_NoFlowOffBush ==
    AfterDial => \A a \in Arcs \ BushArcs(r - 1) : flow[a] = Zero

\* C19 witness: dialFlows has run for the second origin, and an arc outside
\* its bush held the flow the first origin had put on it.
C19_Witness ==
    /\ AfterDial
    /\ r = 2
    /\ \E a \in BushArcs(0) \ BushArcs(1) : RLess(Zero, OriginFlow(0)[a])

\* The shared arrays as the call finds them.
Scratch ==
    [SPcost |-> SPcost, flow |-> flow, nodeFlow |-> nodeFlow,
     weight |-> weight, nodeWeight |-> nodeWeight, likelihood |-> likelihood]

\* Other contents the six arrays may hold at the call: one value in every
\* slot.
Filled(x) ==
    [SPcost |-> [i \in Nodes |-> x], flow |-> [a \in Arcs |-> x],
     nodeFlow |-> [i \in Nodes |-> x], weight |-> [a \in Arcs |-> x],
     nodeWeight |-> [i \in Nodes |-> x], likelihood |-> [a \in Arcs |-> x]]

ScratchSamples == {Filled(x) : x \in {NaN, Zero, One, RNeg(One), INFINITY}}

\* C20: the flow vector of dialFlows(r) does not depend on what SPcost,
\* flow, weight, nodeWeight, nodeFlow and likelihood hold at the call: from
\* any other contents of the six arrays the call gives the same flows.
C20_ScratchIsTransient ==
    pc = "dialFlows" =>
       \A S \in ScratchSamples : dialFlows(S, r).flow = dialFlows(Scratch, r).flow

\* C20 witness: dialFlows is called for the second origin, which loads an
\* arc, while the arrays hold the labels, weights and flows of the first.
C20_Witness ==
    /\ pc = "dialFlows"
    /\ r = 1
    /\ \E a \in Arcs : RLess(Zero, flow[a])
    /\ \E a \in Arcs : RLess(Zero, dialFlows(Scratch, r).flow[a])
    /\ \E i \in Nodes : IsFinite(SPcost[i]) /\ RLess(Zero, SPcost[i])

\* The loop of SUE_MSA is past updateLinkCosts of some pass.
InLoop ==
    /\ ret = "avgFlowDiff"
    /\ pc \in {"calculateTarget", "dialFlows", "avgFlowDiff", "return", "done"}

\* C21: a pass of the loop updates the costs, computes the target, tests,
\* and shifts only when no test stopped the loop: at every calculateTarget
\* of the loop and at the return of SUE_MSA the cost of each arc is its
\* evaluator at the arc's current flow, and at the return diff is the
\* difference of the current flows to the target, no shift came after it.
C21_LoopOrder ==
    /\ InLoop => \A a \in Arcs : arcs[a].cost = calculateCost(arcs[a])
    /\ pc = "return" => converged = TRUE /\ diff = avgFlowDiff
    /\ pc = "shiftFlows" => converged = FALSE /\ diff = avgFlowDiff

\* C21 witness: SUE_MSA has returned after a shift, with a cost that is
\* above the free-flow cost of its arc.
C21_Witness ==
    /\ pc = "done"
    /\ iteration >= 1
    /\ \E a \in Arcs :
          RLess(RAdd(arcs[a].freeFlowTime, arcs[a].fixedCost), arcs[a].cost)

\* The paths of bush o from o to i.
BushPaths(o, i) == PathsVia(BushArcs(o), o, i, Nodes)

\* C22: after the sweep of bushShortestPath for origin r, SPcost[i] is for
\* every node i the least total current cost of a path of arcs of bush r
\* from r to i: 0 at r, +infinity where the bush has no such path.
C22_BushLabelsExact ==
    AfterDial =>
       \A i \in Nodes : SPcost[i] = LeastCost(BushArcs(r - 1), r - 1, i, Nodes)

\* C22 witness: the sweep has run at updated costs on a bush with two paths
\* of different cost to one node.
C22_Witness ==
    /\ AfterDial
    /\ ret = "avgFlowDiff"
    /\ \E i \in Nodes : \E p, q \in BushPaths(r - 1, i) :
          /\ RLess(PathCost(p, 1), PathCost(q, 1))
          /\ SPcost[i] = PathCost(p, 1)

\* The number of paths of bush o from o to the zones other than o with
\* demand from o, summed from zone z on.
RECURSIVE PathsToDemand(_, _)
PathsToDemand(o, z) ==
    IF z >= numZones THEN 0
    ELSE (IF z # o /\ RLess(Zero, demand[o][z])
          THEN Cardinality(BushPaths(o, z)) ELSE 0) + PathsToDemand(o, z + 1)

\* C23: numBushPaths[r] is the number of paths of bush r from r to the
\* zones j other than r with demand[r][j] > 0, for every origin whose pass
\* of initializeBushes is over, whatever the shared pathCount array held
\* from the origin before.
C23_PathCount ==
    /\ pc = "origin" =>
          \A o \in 0 .. r - 1 : numBushPaths[o] = PathsToDemand(o, 0)
    /\ BushesBuilt => \A o \in Zones : numBushPaths[o] = PathsToDemand(o, 0)

\* C23 witness: initializeBushes has returned for two origins, the first
\* with two paths or more to count, which the array held when the count of
\* the second was made.
C23_Witness ==
    /\ pc = "calculateTarget"
    /\ numZones = 2
    /\ numBushPaths[0] >= 2
    /\ numBushPaths[1] = 0

\* C24: every index at which a row of bushOrder is written or read, that
\* is every k in 0 .. numNodes - 1 from bushTopologicalOrder on, lies inside
\* the row allocated for the origin, and no run stops on an access outside.
C24_OrderRowHoldsEveryNode ==
    /\ fault # "out of bounds"
    /\ pc \in {"bushTopologicalOrder", "topologicalLoop", "pathCount",
               "dialFlows"} =>
          \A k \in Nodes : k < bushOrderWidth

\* C25: while the bushes are built, the element passed to insertArcList as
\* the insertion point of the reverse star of the head is the tail of that
\* list, null when the list is empty, and no insertion stores through a
\* null next pointer.
C25_InsertAtOwnTail ==
    /\ fault # "null pointer"
    /\ pc = "reasonable" /\ Reasonable(SPcost, arcs[ij].tail, arcs[ij].head) =>
          bushForwardStar[r][arcs[ij].head].tail =
             bushReverseStar[r][arcs[ij].head].tail

\* The matrix the file lists, from line k on: the entry "j : d" under the
\* header "Origin i" is demand[i - 1][j - 1], the last entry of a pair
\* stands, a pair not listed is 0.
RECURSIVE ListedDemand(_, _, _, _)
ListedDemand(f, k, d, i) ==
    IF k > Len(f) THEN d
    ELSE IF f[k].kind = "Origin" THEN ListedDemand(f, k + 1, d, f[k].n - 1)
    ELSE ListedDemand(f, k + 1, [d EXCEPT ![i][f[k].n - 1] = R(f[k].d)], i)

HasNegativeEntry(f) ==
    \E k \in 1 .. Len(f) : f[k].kind = "entry" /\ f[k].d < 0

\* C26: readTntpNetwork ends in a fatal error when the trip file lists a
\* negative demand; otherwise demand is the matrix the file lists, each
\* entry in the row of the origin whose header it stands under.
C26_TripTable ==
    /\ pc = "fatalError" /\ tripFile # << >> => HasNegativeEntry(tripFile)
    /\ pc = "finalizeNetwork" /\ tripFile # << >> =>
          /\ ~HasNegativeEntry(tripFile)
          /\ demand = ListedDemand(tripFile, 1, NoDemand, NO_PATH_EXISTS)

====
